---- MODULE Spec2Model ----
(***************************************************************************)
(* Model of Python_helper_scripts/param_generator.py (class                *)
(* ParameterGenerator).                                                    *)
(*                                                                         *)
(* Text is modelled as a sequence of tokens.  The literal parts of an      *)
(* f-string template are single tokens; a parameter name is one token;    *)
(* label and option text, whose single characters matter for the markup,  *)
(* is a sequence of one-character tokens.  A Python dict is a function    *)
(* whose DOMAIN is the set of keys present.                                *)
(***************************************************************************)
EXTENDS Integers, Sequences, FiniteSets, TLC

VARIABLES param_types, last, calls, rt

vars == <<param_types, last, calls, rt>>

\* ---------------------------------------------------------------- bounds

\* Number of generate_full_parameter calls in one session.
MaxCalls == 3

\* ------------------------------------------------------- Python helpers

\* dict.get(key, default)
DictGet(d, key, default) == IF key \in DOMAIN d THEN d[key] ELSE default

\* str() of a descriptor value: an int ([int |-> 0]) or a str ([str |-> "0"]).
PyStr(value) == IF "int" \in DOMAIN value THEN ToString(value.int) ELSE value.str

\* ------------------------------------------------------------ __init__

InitialParamTypes ==
  [slider |-> <<"gaindb", "pitch", "panpos", "dualfilcutoff", "res", "envattack",
                "envdecay", "envsus", "envrel", "lforate", "lfoamount", "samstart",
                "samlen", "loopstart", "loopend", "loopfadeamt", "actslice",
                "grainsizeperc", "grainscat", "grainpanrnd", "graindensity",
                "grainreadspeed", "gainssrcwin", "rootnote", "fx1send", "fx2send">>,
   dropdown |-> <<"cellmode", "loopmodes", "loopmode", "samtrigtype", "polymode",
                  "lfowave", "lfokeytrig", "lfobeatsync", "lforatebeatsync",
                  "midimode", "reverse", "outputbus", "chokegrp", "slicestepmode">>]

\* ------------------------------------------------------------- markup

\* generate_slider_html: the label is interpolated as it is.
generate_slider_html(param_name, label, min_val, max_val, default_val) ==
  <<"<div class=\"param\">\n    <label class=\"param-label\">">>
  \o label
  \o <<"</label>\n    <div class=\"param-control\">\n        <input type=\"range\" class=\"slider\" id=\"",
       param_name, "\" min=\"", ToString(min_val), "\" max=\"", ToString(max_val),
       "\" value=\"", PyStr(default_val), "\">\n        <span class=\"param-value\" id=\"",
       param_name, "-val\">0.0%</span>\n    </div>\n</div>">>

\* One <option> line of generate_dropdown_html; opt["value"] and opt["label"]
\* are interpolated as they are.
OptionHtml(opt) ==
  <<"                <option value=\"">> \o opt["value"] \o <<"\">">>
  \o opt["label"] \o <<"</option>">>

\* '\n'.join of the option lines
RECURSIVE JoinOptions(_)
JoinOptions(options) ==
  IF options = <<>> THEN <<>>
  ELSE IF Len(options) = 1 THEN OptionHtml(options[1])
  ELSE OptionHtml(options[1]) \o <<"\n">> \o JoinOptions(Tail(options))

generate_dropdown_html(param_name, label, options) ==
  <<"<div class=\"param\">\n    <label class=\"param-label\">">>
  \o label
  \o <<"</label>\n    <select class=\"select\" id=\"", param_name, "\">\n">>
  \o JoinOptions(options)
  \o <<"\n    </select>\n</div>">>

\* A mutant of generate_default_param: the value is written unquoted.
generate_default_param_unquoted(param_name, default_value) ==
  <<param_name, ": ", PyStr(default_value)>>

\* generate_default_param: always single-quotes the value, whatever the kind.
generate_default_param(param_name, default_value) ==
  <<param_name, ": '", PyStr(default_value), "'">>

\* ------------------------------------------------------------- codecs
\* A generated JavaScript snippet is modelled by its syntax: a record with
\* one field per slot of the template.  Numbers written into a snippet are
\* integers; Hz values are in thousandths of a Hz (0.1 Hz is 100).

DefaultDivisor == 1
DefaultMinHz == 100
DefaultMaxHz == 20000

\* The entries of the catalogue `formatters` of generate_display_formatter.
PercentageFormatter(param_name) ==
  [case |-> param_name, expr |-> "(val / D).toFixed(N) + U",
   signed |-> FALSE, divisor |-> 10, decimals |-> 1, unit |-> "%"]

DbFormatter(param_name) ==
  [case |-> param_name, expr |-> "(val / D).toFixed(N) + U",
   signed |-> TRUE, divisor |-> 1000, decimals |-> 1, unit |-> " dB"]

SemitonesFormatter(param_name) ==
  [case |-> param_name, expr |-> "(val / D).toFixed(N) + U",
   signed |-> TRUE, divisor |-> 1000, decimals |-> 2, unit |-> " st"]

MsFormatter(param_name, kwargs) ==
  [case |-> param_name, expr |-> "(val / D).toFixed(N) + U",
   signed |-> FALSE, divisor |-> DictGet(kwargs, "divisor", DefaultDivisor),
   decimals |-> 1, unit |-> " ms"]

HzFormatter(param_name, kwargs) ==
  [case |-> param_name,
   expr |-> "(A + ((val / 1000) * (B - C))).toFixed(N) + U",
   const |-> <<"hz_", param_name>>,
   A |-> DictGet(kwargs, "min_hz", DefaultMinHz),
   B |-> DictGet(kwargs, "max_hz", DefaultMaxHz),
   C |-> DictGet(kwargs, "min_hz", DefaultMinHz),
   decimals |-> 2, unit |-> " Hz"]

CustomFormatter(kwargs) ==
  [custom_code |-> DictGet(kwargs, "custom_code", "// Add custom formatting here")]

Formatters(param_name, kwargs) ==
  [percentage |-> PercentageFormatter(param_name),
   db         |-> DbFormatter(param_name),
   semitones  |-> SemitonesFormatter(param_name),
   ms         |-> MsFormatter(param_name, kwargs),
   hz         |-> HzFormatter(param_name, kwargs),
   custom     |-> CustomFormatter(kwargs)]

\* A mutant of generate_display_formatter: an unknown format falls back to
\* the custom entry.
generate_display_formatter_custom_fallback(param_name, format_type, kwargs) ==
  LET formatters == Formatters(param_name, kwargs)
  IN  IF format_type \in DOMAIN formatters THEN formatters[format_type]
      ELSE formatters["custom"]

\* formatters.get(format_type, formatters['percentage'])
generate_display_formatter(param_name, format_type, kwargs) ==
  LET formatters == Formatters(param_name, kwargs)
  IN  IF format_type \in DOMAIN formatters THEN formatters[format_type]
      ELSE formatters["percentage"]

\* A mutant of PercentageParser: the factor of the db line.
PercentageParserTimes1000 ==
  [expr |-> "Math.round(val * F)", factor |-> 1000]

\* The entries of the catalogue `parsers` of generate_parser.
PercentageParser ==
  [expr |-> "Math.round(val * F)", factor |-> 10]

DbParser ==
  [expr |-> "Math.round(val * F)", factor |-> 1000]

SemitonesParser ==
  [expr |-> "Math.round(val * F)", factor |-> 1000]

MsParser(kwargs) ==
  [expr |-> "Math.round(val * F)",
   factor |-> DictGet(kwargs, "divisor", DefaultDivisor)]

\* A mutant of HzParser: the range test reads the defaults, not the options.
HzParserDefaultRange(kwargs) ==
  [expr |-> "hz < LO || hz > HI ? null : Math.round(((hz - A) / (B - C)) * 1000)",
   LO |-> DefaultMinHz,
   HI |-> DefaultMaxHz,
   A |-> DictGet(kwargs, "min_hz", DefaultMinHz),
   B |-> DictGet(kwargs, "max_hz", DefaultMaxHz),
   C |-> DictGet(kwargs, "min_hz", DefaultMinHz)]

HzParser(kwargs) ==
  [expr |-> "hz < LO || hz > HI ? null : Math.round(((hz - A) / (B - C)) * 1000)",
   LO |-> DictGet(kwargs, "min_hz", DefaultMinHz),
   HI |-> DictGet(kwargs, "max_hz", DefaultMaxHz),
   A |-> DictGet(kwargs, "min_hz", DefaultMinHz),
   B |-> DictGet(kwargs, "max_hz", DefaultMaxHz),
   C |-> DictGet(kwargs, "min_hz", DefaultMinHz)]

CustomParser(kwargs) ==
  [custom_code |-> DictGet(kwargs, "custom_code", "return Math.round(val);")]

Parsers(param_name, kwargs) ==
  [percentage |-> PercentageParser,
   db         |-> DbParser,
   semitones  |-> SemitonesParser,
   ms         |-> MsParser(kwargs),
   hz         |-> HzParser(kwargs),
   custom     |-> CustomParser(kwargs)]

\* parsers.get(format_type, parsers['percentage'])
generate_parser(param_name, format_type, kwargs) ==
  LET parsers == Parsers(param_name, kwargs)
  IN  IF format_type \in DOMAIN parsers THEN parsers[format_type]
      ELSE parsers["percentage"]

\* --------------------------------------- what the generated snippets compute

Pow10(n) == IF n = 0 THEN 1 ELSE IF n = 1 THEN 10 ELSE 100

\* The integers nearest to num/den (den > 0).  At an exact tie both
\* neighbours are outcomes: the snippet computes in binary floating point,
\* where a quotient or product that is a tie in exact arithmetic lands on
\* either side of it.
Nearest(num, den) ==
  LET q == num \div den
      r == num % den
  IN  IF 2 * r < den THEN {q}
      ELSE IF 2 * r > den THEN {q + 1}
      ELSE {q, q + 1}

\* Number.prototype.toFixed(digits) of num/den: the number shown, as an
\* integer count of 10^-digits.
ToFixed(num, den, digits) == Nearest(num * Pow10(digits), den)

\* Math.round(num/den)
MathRound(num, den) == Nearest(num, den)

\* The numbers a formatter snippet can show for raw value val, as counts of
\* 10^-decimals.
RunFormatterSnippet(f, val) ==
  IF "divisor" \in DOMAIN f
  THEN ToFixed(val, f.divisor, f.decimals)
  ELSE ToFixed(1000 * f.A + val * (f.B - f.C), 1000 * 1000, f.decimals)

\* The results of a parser snippet for the shown number `shown` (a count of
\* 10^-decimals): [valid |-> FALSE] is the snippet's `return null`.
RunParserSnippet(p, shown, decimals) ==
  IF "factor" \in DOMAIN p
  THEN {[valid |-> TRUE, raw |-> r] : r \in MathRound(shown * p.factor, Pow10(decimals))}
  ELSE LET hz == shown * (1000 \div Pow10(decimals))
       IN  IF hz < p.LO \/ hz > p.HI
           THEN {[valid |-> FALSE, raw |-> 0]}
           ELSE {[valid |-> TRUE, raw |-> r] :
                    r \in MathRound((hz - p.A) * 1000, p.B - p.C)}

\* ------------------------------------------------------- registration

\* A mutant of add_to_lists: the modal's slider view is taken from the
\* dropdown list.
add_to_lists_crossed_view(pt, param_name, param_type) ==
  [param_types |->
     IF param_type = "slider"
     THEN [pt EXCEPT !.slider = Append(pt.slider, param_name)]
     ELSE [pt EXCEPT !.dropdown = Append(pt.dropdown, param_name)],
   lists |-> [setupParameterListeners_sliders   |-> "slider",
              setupParameterListeners_dropdowns |-> "dropdown",
              loadParamsToModal_sliders         |-> "dropdown",
              loadParamsToModal_dropdowns       |-> "dropdown"]]

\* A mutant of add_to_lists: the name is inserted at the front of its list.
add_to_lists_inserting_first(pt, param_name, param_type) ==
  [param_types |->
     IF param_type = "slider"
     THEN [pt EXCEPT !.slider = <<param_name>> \o pt.slider]
     ELSE [pt EXCEPT !.dropdown = <<param_name>> \o pt.dropdown],
   lists |-> [setupParameterListeners_sliders   |-> "slider",
              setupParameterListeners_dropdowns |-> "dropdown",
              loadParamsToModal_sliders         |-> "slider",
              loadParamsToModal_dropdowns       |-> "dropdown"]]

\* add_to_lists: the name is appended to the list of its kind, every time.
\* The four views returned are references to the two lists of
\* self.param_types (their keys), not copies.
add_to_lists(pt, param_name, param_type) ==
  [param_types |->
     IF param_type = "slider"
     THEN [pt EXCEPT !.slider = Append(pt.slider, param_name)]
     ELSE [pt EXCEPT !.dropdown = Append(pt.dropdown, param_name)],
   lists |-> [setupParameterListeners_sliders   |-> "slider",
              setupParameterListeners_dropdowns |-> "dropdown",
              loadParamsToModal_sliders         |-> "slider",
              loadParamsToModal_dropdowns       |-> "dropdown"]]

\* The keys of `keys`, in order, that config lacks: config[key] raises
\* KeyError at the first of them.
RECURSIVE FirstMissing(_, _)
FirstMissing(config, keys) ==
  IF keys = <<>> THEN "-"
  ELSE IF Head(keys) \notin DOMAIN config THEN Head(keys)
  ELSE FirstMissing(config, Tail(keys))

\* The first opt["value"] / opt["label"] lookup of generate_dropdown_html
\* that raises KeyError.
RECURSIVE FirstMissingOption(_)
FirstMissingOption(options) ==
  IF options = <<>> THEN "-"
  ELSE IF FirstMissing(options[1], <<"value", "label">>) # "-"
       THEN FirstMissing(options[1], <<"value", "label">>)
  ELSE FirstMissingOption(Tail(options))

\* Lines 103-134 of generate_full_parameter: the lookups and the rendering,
\* in the order of the statements.  Nothing here touches self.param_types.
\* [outcome |-> "KeyError", error |-> key] is the exception config[key] raises.
Render(config) ==
  IF FirstMissing(config, <<"name", "type">>) # "-"
  THEN [outcome |-> "KeyError", error |-> FirstMissing(config, <<"name", "type">>)]
  ELSE
  LET param_name == config["name"]
      param_type == config["type"]
      default_param ==
        generate_default_param(param_name, DictGet(config, "default", [str |-> "0"]))
      format == DictGet(config, "format", "percentage")
      format_options == DictGet(config, "format_options", <<>>)
  IN  IF param_type = "slider"
      THEN IF FirstMissing(config, <<"label", "min", "max">>) # "-"
           THEN [outcome |-> "KeyError",
                 error |-> FirstMissing(config, <<"label", "min", "max">>)]
           ELSE [outcome |-> "ok", error |-> "-",
                 result |->
                  [param_name |-> param_name,
                   default_param |-> default_param,
                   html |-> generate_slider_html(param_name, config["label"],
                              config["min"], config["max"],
                              DictGet(config, "default", [int |-> 0])),
                   display_formatter |->
                     generate_display_formatter(param_name, format, format_options),
                   parser |-> generate_parser(param_name, format, format_options)]]
      ELSE IF FirstMissing(config, <<"label", "options">>) # "-"
           THEN [outcome |-> "KeyError",
                 error |-> FirstMissing(config, <<"label", "options">>)]
           ELSE IF FirstMissingOption(config["options"]) # "-"
           THEN [outcome |-> "KeyError", error |-> FirstMissingOption(config["options"])]
           ELSE [outcome |-> "ok", error |-> "-",
                 result |->
                  [param_name |-> param_name,
                   default_param |-> default_param,
                   html |-> generate_dropdown_html(param_name, config["label"],
                              config["options"])]]

\* result['updated_lists'] = ...
WithLists(result, lists) ==
  [k \in DOMAIN result \cup {"updated_lists"} |->
     IF k = "updated_lists" THEN lists ELSE result[k]]

\* A mutant of generate_full_parameter: the name is registered as soon as
\* name and type are known, before the rendering.
generate_full_parameter_registering_first(pt, config) ==
  LET r == Render(config)
  IN  IF FirstMissing(config, <<"name", "type">>) # "-"
      THEN [outcome |-> r.outcome, error |-> r.error, param_types |-> pt]
      ELSE LET registered == add_to_lists(pt, config["name"], config["type"])
           IN  IF r.outcome # "ok"
               THEN [outcome |-> r.outcome, error |-> r.error,
                     param_types |-> registered.param_types]
               ELSE [outcome |-> "ok", error |-> "-",
                     param_types |-> registered.param_types,
                     result |-> WithLists(r.result, registered.lists)]

\* generate_full_parameter: an exception of lines 103-134 leaves the method
\* before line 136; otherwise add_to_lists runs last and its views go into
\* the bundle.
generate_full_parameter(pt, config) ==
  LET r == Render(config)
  IN  IF r.outcome # "ok"
      THEN [outcome |-> r.outcome, error |-> r.error, param_types |-> pt]
      ELSE LET registered == add_to_lists(pt, config["name"], config["type"])
           IN  [outcome |-> "ok", error |-> "-",
                param_types |-> registered.param_types,
                result |-> WithLists(r.result, registered.lists)]

\* ------------------------------------------------------------ inputs

Names == {"gaindb", "distortion"}

LabelPlain == <<"G", "a", "i", "n">>
LabelMarkup == <<"A", "<", "b", ">", "&">>
Labels == {LabelPlain, LabelMarkup}

OptionsPlain ==
  << [value |-> <<"0">>, label |-> <<"L", "o">>],
     [value |-> <<"1">>, label |-> <<"H", "i">>] >>
OptionsMarkup ==
  << [value |-> <<"\"">>, label |-> <<"<", "&">>] >>
OptionsNoLabel ==
  << [value |-> <<"0">>, label |-> <<"L", "o">>], [value |-> <<"1">>] >>
OptionLists == {<<>>, OptionsPlain, OptionsMarkup, OptionsNoLabel}

Drop(config, key) == [k \in DOMAIN config \ {key} |-> config[k]]

SliderConfig(n, l, f, o) ==
  [name |-> n, type |-> "slider", label |-> l, min |-> 0, max |-> 1000,
   default |-> [int |-> 0], format |-> f, format_options |-> o]

DropdownConfig(n, t, l, o) ==
  [name |-> n, type |-> t, label |-> l, default |-> [str |-> "0"], options |-> o]

Configs ==
  {SliderConfig(n, l, "percentage", <<>>) : n \in Names, l \in Labels}
  \cup {SliderConfig(n, LabelPlain, "hz", [min_hz |-> 20000, max_hz |-> 20000000]) :
          n \in Names}
  \cup {SliderConfig(n, LabelPlain, "bogus", [divisor |-> 10]) : n \in Names}
  \cup {Drop(SliderConfig(n, LabelPlain, "percentage", <<>>), k) :
          n \in Names,
          k \in {"name", "type", "label", "min", "max", "default", "format",
                 "format_options"}}
  \cup {DropdownConfig(n, "dropdown", l, o) : n \in Names, l \in Labels, o \in OptionLists}
  \cup {DropdownConfig(n, "knob", LabelPlain, OptionsPlain) : n \in Names}
  \cup {Drop(DropdownConfig(n, "dropdown", LabelPlain, OptionsPlain), k) :
          n \in Names, k \in {"label", "default", "options"}}

\* ------------------------------------------------------------ session

NoCall == [outcome |-> "none"]
Idle == [pc |-> "idle"]

Init ==
  /\ param_types = InitialParamTypes
  /\ last = NoCall
  /\ calls = 0
  /\ rt = Idle

\* One call gen.generate_full_parameter(config).  `last` records the call for
\* the caller: the argument, the lists before it, and what came back.
Compile(config) ==
  /\ calls < MaxCalls
  /\ LET r == generate_full_parameter(param_types, config)
     IN  /\ param_types' = r.param_types
         /\ last' = [config |-> config, before |-> param_types,
                     outcome |-> r.outcome, error |-> r.error,
                     result |-> IF r.outcome = "ok" THEN r.result ELSE <<>>]
  /\ calls' = calls + 1
  /\ UNCHANGED rt

Next == \E config \in Configs : Compile(config)

Spec == Init /\ [][Next]_vars

\* ====================================================== session claims

InList(seq, x) == \E i \in 1..Len(seq) : seq[i] = x

\* The kind a descriptor is compiled as (line 111: anything but 'slider'
\* takes the dropdown branch).
KindOf(config) == IF config["type"] = "slider" THEN "slider" ELSE "dropdown"
OtherKind(kind) == IF kind = "slider" THEN "dropdown" ELSE "slider"

\* A descriptor with every key its kind requires present.
WellFormed(config) ==
  /\ Render(config).outcome = "ok"
  /\ config["type"] \in {"slider", "dropdown"}

\* A view of a returned bundle, read through its reference.
View(result, view) == param_types[result.updated_lists[view]]

\* C1: compiling the same descriptor twice in a row yields the same bundle
\* the second time and leaves the membership list of the descriptor's kind
\* at the length it had after the first call.
C1_Idempotent ==
  [][(/\ last.outcome = "ok"
      /\ calls' = calls + 1
      /\ last'.outcome = "ok"
      /\ last'.config = last.config)
     => /\ last'.result = last.result
        /\ Len(param_types'[KindOf(last.config)])
             = Len(param_types[KindOf(last.config)])]_vars

\* C2: a well-formed descriptor whose name is already in the list of the
\* other kind is rejected with InvalidDescriptorError and both lists stay as
\* they were.
C2_CrossKindRejected ==
  (/\ last.outcome # "none"
   /\ WellFormed(last.config)
   /\ InList(last.before[OtherKind(KindOf(last.config))], last.config["name"]))
  => /\ last.outcome = "InvalidDescriptorError"
     /\ param_types = last.before

\* C3: a call that fails while looking up or rendering leaves both lists
\* exactly as they were before the call.
C3_NoPartialRegistration ==
  last.outcome \notin {"none", "ok"} => param_types = last.before

\* C3 witness: after an earlier successful registration, a slider descriptor
\* without 'label' and a dropdown descriptor without 'options' have failed.
C3_Witness ==
  /\ last.outcome = "KeyError"
  /\ last.error \in {"label", "min", "max", "options"}
  /\ "name" \in DOMAIN last.config
  /\ last.before # InitialParamTypes

\* C7: in every returned bundle the two slider views are the same list and
\* the two dropdown views are the same list.
C7_ViewsAgree ==
  last.outcome = "ok" =>
    /\ View(last.result, "setupParameterListeners_sliders")
         = View(last.result, "loadParamsToModal_sliders")
    /\ View(last.result, "setupParameterListeners_dropdowns")
         = View(last.result, "loadParamsToModal_dropdowns")

\* C7 witness: a bundle returned after earlier compilations of both kinds,
\* whose slider and dropdown lists both hold new names.
C7_Witness ==
  /\ last.outcome = "ok"
  /\ calls = MaxCalls
  /\ Len(View(last.result, "loadParamsToModal_sliders")) > Len(InitialParamTypes.slider)
  /\ Len(View(last.result, "loadParamsToModal_dropdowns"))
       > Len(InitialParamTypes.dropdown)

\* C10: every call leaves the list of the other kind unchanged, and the list
\* of the descriptor's kind is the list before the call, with at most the
\* descriptor's name added at the end.
C10_AppendOnly ==
  last.outcome # "none" =>
    \E k \in {"slider", "dropdown"} :
      /\ "type" \in DOMAIN last.config => k = KindOf(last.config)
      /\ param_types[OtherKind(k)] = last.before[OtherKind(k)]
      /\ \/ param_types[k] = last.before[k]
         \/ /\ "name" \in DOMAIN last.config
            /\ param_types[k] = Append(last.before[k], last.config["name"])

\* C10 witness: a call has appended its name to a list that already held a
\* name added in this session.
C10_Witness ==
  /\ last.outcome = "ok"
  /\ last.before[KindOf(last.config)] # InitialParamTypes[KindOf(last.config)]
  /\ param_types[KindOf(last.config)]
       = Append(last.before[KindOf(last.config)], last.config["name"])

\* The text of the default a call writes into the default entry (line 108).
DefaultText(config) == PyStr(DictGet(config, "default", [str |-> "0"]))

C9_MarkupEscaped ==
  last.outcome = "ok" =>
    \A i \in 1..Len(last.result.html) :
      last.result.html[i] \notin {"<", ">", "&", "\""}

\* ============================================== codec round-trip harness
\* rt follows one generated codec pair: the snippets are generated for
\* (name, format, opts), then the forward snippet runs on the raw value and
\* the inverse snippet on the number it showed.

\* Raw values run from -MaxRaw to MaxRaw for the fixed-scale codecs.
MaxRaw == 120
\* The hz codec maps raw 0..1000 onto [min_hz, max_hz].
HzRawMax == 1000

CodecNames == {"distortion", "filtercutoff"}
Divisors == {2, 3, 4, 7, 10, 15, 100, 1000}
UnknownFormats == {"bogus", "Percentage"}

FixedScaleInputs ==
  {[format |-> f, opts |-> <<>>] : f \in {"percentage", "db", "semitones", "ms"}}
  \cup {[format |-> "ms", opts |-> [divisor |-> d]] : d \in Divisors}
  \cup {[format |-> f, opts |-> o] :
          f \in UnknownFormats,
          o \in {<<>>, [divisor |-> 100], [min_hz |-> 0, max_hz |-> 1000],
                 [custom_code |-> "return val;"]}}

HzOptions ==
  {<<>>,
   [min_hz |-> 1000], [max_hz |-> 10000],
   [min_hz |-> 5000, max_hz |-> 15000],
   [min_hz |-> 0, max_hz |-> 3340],
   [min_hz |-> 0, max_hz |-> 3330],
   [min_hz |-> 0, max_hz |-> 1000],
   [min_hz |-> 124, max_hz |-> 20000]}

CustomInputs ==
  {[format |-> "custom", opts |-> o] : o \in {<<>>, [custom_code |-> "return val;"]}}

Start(name, in, raw) ==
  [pc |-> "start", name |-> name, format |-> in.format, opts |-> in.opts, raw |-> raw,
   formatter |-> <<>>, parser |-> <<>>, shown |-> 0, back |-> [valid |-> FALSE, raw |-> 0]]

InitCodec ==
  /\ param_types = InitialParamTypes
  /\ last = NoCall
  /\ calls = 0
  /\ rt \in {Start(n, in, raw) : n \in CodecNames, in \in FixedScaleInputs,
                                raw \in (-MaxRaw)..MaxRaw}
       \cup {Start(n, [format |-> "hz", opts |-> o], raw) :
               n \in CodecNames, o \in HzOptions, raw \in 0..HzRawMax}
       \cup {Start(n, in, 0) : n \in CodecNames, in \in CustomInputs}

\* generate_display_formatter and generate_parser are called for the codec.
GenerateCodec ==
  /\ rt.pc = "start"
  /\ rt' = [rt EXCEPT !.pc = "generated",
                      !.formatter = generate_display_formatter(rt.name, rt.format, rt.opts),
                      !.parser = generate_parser(rt.name, rt.format, rt.opts)]
  /\ UNCHANGED <<param_types, last, calls>>

\* The host runs the forward snippet on the raw value.
RunFormatter ==
  /\ rt.pc = "generated"
  /\ "custom_code" \notin DOMAIN rt.formatter
  /\ \E d \in RunFormatterSnippet(rt.formatter, rt.raw) :
       rt' = [rt EXCEPT !.pc = "shown", !.shown = d]
  /\ UNCHANGED <<param_types, last, calls>>

\* The host runs the inverse snippet on the number shown.
RunParser ==
  /\ rt.pc = "shown"
  /\ \E b \in RunParserSnippet(rt.parser, rt.shown, rt.formatter.decimals) :
       rt' = [rt EXCEPT !.pc = "parsed", !.back = b]
  /\ UNCHANGED <<param_types, last, calls>>

NextCodec == GenerateCodec \/ RunFormatter \/ RunParser

SpecCodec == InitCodec /\ [][NextCodec]_vars

\* ======================================================== codec claims

Abs(x) == IF x < 0 THEN -x ELSE x

KnownFormats == {"percentage", "db", "semitones", "ms", "hz", "custom"}
FixedScaleFormats == {"percentage", "db", "semitones", "ms"}

\* The options the snippets of rt were generated with.
DivisorOf(opts) == DictGet(opts, "divisor", DefaultDivisor)
MinHzOf(opts) == DictGet(opts, "min_hz", DefaultMinHz)
MaxHzOf(opts) == DictGet(opts, "max_hz", DefaultMaxHz)

\* C4 as claimed: for percentage, db, semitones and ms with any divisor, the
\* inverse snippet applied to the number the forward snippet shows gives back
\* exactly the raw value.
C4_ExactRoundTrip ==
  (rt.pc = "parsed" /\ rt.format \in FixedScaleFormats)
  => (rt.back.valid /\ rt.back.raw = rt.raw)

\* C4 amended: the round trip is exact for percentage and for ms with a
\* divisor of at most 10; for db it comes back within 50 raw units, for
\* semitones within 5, for ms with a larger divisor d within (d + 10) / 20:
\* half a unit of the last decimal shown.
C4_RoundTripToDisplayPrecision ==
  (rt.pc = "parsed" /\ rt.format \in FixedScaleFormats)
  => /\ rt.back.valid
     /\ rt.format = "percentage" => rt.back.raw = rt.raw
     /\ rt.format = "db" => Abs(rt.back.raw - rt.raw) <= 50
     /\ rt.format = "semitones" => Abs(rt.back.raw - rt.raw) <= 5
     /\ rt.format = "ms" =>
          IF DivisorOf(rt.opts) <= 10
          THEN rt.back.raw = rt.raw
          ELSE 20 * Abs(rt.back.raw - rt.raw) <= DivisorOf(rt.opts) + 10

\* C4 witness: a percentage value with a non-zero decimal has gone through
\* both snippets and come back.
C4_Witness ==
  /\ rt.pc = "parsed"
  /\ rt.format = "percentage"
  /\ rt.raw = 37
  /\ rt.shown = 37
  /\ rt.back.raw = 37

\* C5 as claimed: for hz with any min_hz < max_hz and every raw value in
\* 0..1000, the inverse snippet applied to the Hz value shown is not the
\* invalid signal and differs from the raw value by at most one.
C5_HzRoundTrip ==
  (rt.pc = "parsed" /\ rt.format = "hz" /\ MinHzOf(rt.opts) < MaxHzOf(rt.opts))
  => (rt.back.valid /\ Abs(rt.back.raw - rt.raw) <= 1)

\* C5 amended: the same, for options where min_hz and max_hz are whole
\* hundredths of a Hz and at least 3.34 Hz apart (the defaults 0.1 and 20
\* among them).
C5_HzRoundTripWideRange ==
  (/\ rt.pc = "parsed"
   /\ rt.format = "hz"
   /\ MinHzOf(rt.opts) % 10 = 0
   /\ MaxHzOf(rt.opts) % 10 = 0
   /\ MaxHzOf(rt.opts) - MinHzOf(rt.opts) >= 3340)
  => (rt.back.valid /\ Abs(rt.back.raw - rt.raw) <= 1)

\* C5 witness: with a range of exactly 3.34 Hz a raw value has come back
\* valid and one off.
C5_Witness ==
  /\ rt.pc = "parsed"
  /\ rt.format = "hz"
  /\ MinHzOf(rt.opts) = 0
  /\ MaxHzOf(rt.opts) = 3340
  /\ rt.back.valid
  /\ Abs(rt.back.raw - rt.raw) = 1

\* C6: for a format name outside the catalogue, both generators return what
\* they return for 'percentage' with the same name and options.
C6_DefaultCodecFallback ==
  (rt.pc # "start" /\ rt.format \notin KnownFormats)
  => /\ rt.formatter = generate_display_formatter(rt.name, "percentage", rt.opts)
     /\ rt.parser = generate_parser(rt.name, "percentage", rt.opts)

\* C6 witness: snippets generated for the unknown format 'bogus' with a
\* divisor option are the percentage pair.
C6_Witness ==
  /\ rt.pc = "generated"
  /\ rt.format = "bogus"
  /\ "divisor" \in DOMAIN rt.opts
  /\ rt.formatter.unit = "%"
  /\ rt.formatter.divisor = 10
  /\ rt.parser.factor = 10

====
